---- MODULE Spec2Model ----
(***************************************************************************)
(* SIMAS school journal application: the client's data synchronisation     *)
(* (App.tsx, two revisions), the serverless handlers /api/users,           *)
(* /api/journals and /api/login, and the store they talk to.               *)
(*                                                                         *)
(* Six specifications share the store tables:                              *)
(*   Spec       the client (fetchData, the mutation handlers, login,       *)
(*              logout, the reconcile effect) against the handlers;        *)
(*   SpecLive   the client with every request eventually answered;         *)
(*   SpecLocal  the client and localStorage (settings, stored user);       *)
(*   SpecApi    the /api/users and /api/journals handlers called directly; *)
(*   SpecSeed   GET /api/users requests served at the same time;           *)
(*   SpecLogin  the /api/login handler over bounded stores and requests.   *)
(*                                                                         *)
(* Abstractions: arrays returned by the store are sets (the ORDER BY of    *)
(* the list endpoints is not modelled); strings that the code only         *)
(* compares are atoms; passwords are sequences of characters so that       *)
(* toLowerCase is computed; a handler of the API runs atomically.          *)
(***************************************************************************)
EXTENDS Integers, Sequences, FiniteSets, TLC

VARIABLES
    \* ---- the store (Supabase tables) ----
    dbUsers,          \* table users: a set of user rows
    dbJournals,       \* table journals: a set of journal rows
    dbNextId,         \* the journals table's id generator: ids handed out so far
    nOther,           \* number of requests other sessions have sent to the store
    \* ---- the client (App component state) ----
    rev,              \* which revision of App runs: "App" (src/src/App.tsx) or "part_001"
    mounted,          \* the mount effects have run
    isLoading,        \* useState(true)
    error,            \* useState<string|null>(null): TRUE when a message is set
    currentUser,      \* useState<User|null>(null)
    users,            \* useState<User[]>([])
    journalEntries,   \* useState<JournalEntry[]>([])
    isInitialLoad,    \* useRef(true) (part_001 only)
    settings,         \* the four settings kept with useState, by localStorage key
    localStorage,     \* the browser's localStorage: the item under each key
    settingsLoaded,   \* history: the setX(loadState(..)) lines of fetchData have run
    inflight,         \* fetchData calls awaiting their responses, in issue order
    muts,             \* mutation handler calls awaiting their response
    lastSettled,      \* the mutation handler promise that settled last, with its outcome
    nIssued,          \* number of fetchData calls started by mount, visibilitychange, retry
    nMut,             \* number of mutation handler calls so far
    nLogin,           \* number of sign-ins so far
    \* ---- direct calls of the API ----
    apiReq,           \* the last request sent to /api/users or /api/journals
    apiRes,           \* its response
    nApi,             \* number of direct API calls so far
    gets,             \* GET /api/users requests under way, each at its position
    \* ---- /api/login ----
    loginReq,         \* the last request sent to /api/login
    loginRes          \* its response

storeVars  == <<dbUsers, dbJournals, dbNextId, nOther>>
localVars  == <<settings, localStorage, settingsLoaded>>
clientVars == <<rev, mounted, isLoading, error, currentUser, users, journalEntries,
                isInitialLoad, localVars, nLogin, inflight, muts, lastSettled, nIssued, nMut>>
apiVars    == <<apiReq, apiRes, nApi, gets>>
loginVars  == <<loginReq, loginRes>>
vars       == <<storeVars, clientVars, apiVars, loginVars>>

(***************************************************************************)
(* Bounds of the model.                                                    *)
(***************************************************************************)
MaxRefresh == 2      \* fetchData calls started by mount, visibilitychange and retry
MaxMut     == 1      \* mutation handler calls per behaviour
MaxInflight == 2     \* fetchData calls in flight together
MaxApi     == 3      \* direct API calls per behaviour
MaxOther   == 1      \* requests of other sessions per behaviour
MaxLogin   == 1      \* sign-ins per behaviour
MaxGets    == 4      \* GET /api/users requests served at the same time

(***************************************************************************)
(* Data.                                                                   *)
(***************************************************************************)
NULL      == [null |-> TRUE]   \* JavaScript null, where an object is expected
UNDEFINED == "undefined"       \* an absent string (a query parameter, a generated id)
NONE      == ""                \* a missing or empty (falsy) string field

Roles == {"STUDENT", "TEACHER", "PARENT", "ADMIN"}

\* A row of table users.
MkUser(id, name, role, nisn, nip, nik, password) ==
    [id |-> id, name |-> name, role |-> role,
     nisn |-> nisn, nip |-> nip, nik |-> nik, password |-> password]

\* A row of table journals.
MkJournal(id, studentId, content) ==
    [id |-> id, studentId |-> studentId, content |-> content]

Ids(rows) == {r.id : r \in rows}

\* The fixed initial roster seeded by GET /api/users (src/constants is not
\* part of the sources; the roster is an admin and a student).
INITIAL_USERS ==
    { MkUser("u1", "n1", "ADMIN",   NONE, "u1", NONE, <<"a">>),
      MkUser("u2", "n1", "STUDENT", "u2", NONE, NONE, <<"a">>) }

(***************************************************************************)
(* supabase-js: a query resolves to {data, error}; it does not throw on a  *)
(* store error.  .single() turns a result that is not exactly one row into *)
(* an error with data null.                                                *)
(***************************************************************************)
Single(rows) ==
    IF Cardinality(rows) = 1
    THEN [data |-> CHOOSE r \in rows : TRUE, error |-> FALSE]
    ELSE [data |-> NULL, error |-> TRUE]

Response(status, body, message, u, j) ==
    [status |-> status, body |-> body, message |-> message, users |-> u, journals |-> j]

(***************************************************************************)
(* /api/users (src/api/users.ts).  `fault` is the set of store calls of    *)
(* this request that come back with an error.  The result carries the      *)
(* response and the tables after the request.                              *)
(***************************************************************************)
Faults == {"count", "insert", "select", "update", "delete",
           "nokey", "deljournals", "delusers"}

UsersGet(u, j, fault) ==
    IF "count" \in fault
    THEN Response(500, NULL, "Error fetching users", u, j)
    ELSE IF Cardinality(u) = 0 /\ "insert" \in fault
    THEN Response(500, NULL, "Error fetching users", u, j)
    ELSE LET seeded == IF Cardinality(u) = 0 THEN INITIAL_USERS ELSE u
         IN  IF "select" \in fault
             THEN Response(500, NULL, "Error fetching users", seeded, j)
             ELSE Response(200, seeded, NONE, seeded, j)

UsersPost(body, u, j, fault) ==
    LET insertError == "insert" \in fault \/ body.id \in Ids(u)
    IN  IF insertError
        THEN Response(400, NULL, "Bad request", u, j)
        ELSE Response(201, body, NONE, u \cup {body}, j)

\* Variant: the update is issued without the test of the id.
UsersPutUnchecked(body, u, j, fault) ==
    LET matched == {r \in u : r.id = body.id}
        failed  == "update" \in fault
        after   == IF failed \/ matched = {} THEN u ELSE (u \ matched) \cup {body}
        res     == IF failed THEN [data |-> NULL, error |-> TRUE]
                   ELSE Single({r \in after : r.id = body.id})
    IN  IF res.error
        THEN Response(400, NULL, "Bad request: Invalid data format.", after, j)
        ELSE IF res.data = NULL
        THEN Response(404, NULL, "User not found", after, j)
        ELSE Response(200, res.data, NONE, after, j)

UsersPut(body, u, j, fault) ==
    IF body.id = NONE
    THEN Response(400, NULL, "Bad request: Missing user ID.", u, j)
    ELSE LET matched == {r \in u : r.id = body.id}
             failed  == "update" \in fault
             after   == IF failed \/ matched = {} THEN u ELSE (u \ matched) \cup {body}
             res     == IF failed THEN [data |-> NULL, error |-> TRUE]
                        ELSE Single({r \in after : r.id = body.id})
         IN  IF res.error
             THEN Response(400, NULL, "Bad request: Invalid data format.", after, j)
             ELSE IF res.data = NULL
             THEN Response(404, NULL, "User not found", after, j)
             ELSE Response(200, res.data, NONE, after, j)

\* .delete().neq('id', '0'): every row whose id is not '0' goes.
DeleteAllButZero(rows) == {r \in rows : r.id = "0"}

UsersReset(u, j, fault) ==
    IF "nokey" \in fault
    THEN Response(500, NULL, "Error resetting data", u, j)
    ELSE Response(200, NULL, "All application data has been reset.",
                  IF "delusers" \in fault THEN u ELSE DeleteAllButZero(u),
                  IF "deljournals" \in fault THEN j ELSE DeleteAllButZero(j))

UsersDelete(query, u, j, fault) ==
    IF query.action = "reset_application_data"
    THEN UsersReset(u, j, fault)
    ELSE IF query.id = UNDEFINED
    THEN Response(400, NULL, "Bad request: Missing or invalid id.", u, j)
    ELSE IF "delete" \in fault
    THEN Response(500, NULL, "Error deleting user", u, j)
    ELSE Response(200, NULL, "User deleted successfully",
                  {r \in u : r.id # query.id}, j)

UsersHandler(req, u, j, fault) ==
    CASE req.method = "GET"    -> UsersGet(u, j, fault)
      [] req.method = "POST"   -> UsersPost(req.body, u, j, fault)
      [] req.method = "PUT"    -> UsersPut(req.body, u, j, fault)
      [] req.method = "DELETE" -> UsersDelete(req.query, u, j, fault)
      [] OTHER                 -> Response(405, NULL, "Method Not Allowed", u, j)

(***************************************************************************)
(* /api/journals (src/api/journals.ts, and its later revision part_005,    *)
(* which differs in the cache headers only).  `gen` is the id the store    *)
(* generates for an inserted row that brings none.                         *)
(***************************************************************************)
JournalsGet(u, j, fault) ==
    IF "select" \in fault
    THEN Response(500, NULL, "Error fetching journals", u, j)
    ELSE Response(200, j, NONE, u, j)

JournalsPost(body, gen, u, j, fault) ==
    LET row   == IF body.id = NONE THEN [body EXCEPT !.id = gen] ELSE body
        insertError == "insert" \in fault \/ row.id \in Ids(j)
    IN  IF insertError
        THEN Response(400, NULL, "Bad request", u, j)
        ELSE Response(201, row, NONE, u, j \cup {row})

JournalsPut(body, u, j, fault) ==
    IF body.id = NONE
    THEN Response(400, NULL, "Bad request: Missing journal ID.", u, j)
    ELSE LET matched == {r \in j : r.id = body.id}
             failed  == "update" \in fault
             after   == IF failed \/ matched = {} THEN j ELSE (j \ matched) \cup {body}
             res     == IF failed THEN [data |-> NULL, error |-> TRUE]
                        ELSE Single({r \in after : r.id = body.id})
         IN  IF res.error
             THEN Response(400, NULL, "Bad request: Invalid data format.", u, after)
             ELSE IF res.data = NULL
             THEN Response(404, NULL, "Journal not found", u, after)
             ELSE Response(200, res.data, NONE, u, after)

JournalsDelete(query, u, j, fault) ==
    IF query.id = UNDEFINED
    THEN Response(400, NULL, "Bad request: Missing or invalid id.", u, j)
    ELSE IF "delete" \in fault
    THEN Response(500, NULL, "Error deleting journal", u, j)
    ELSE Response(200, NULL, "Journal deleted successfully",
                  u, {r \in j : r.id # query.id})

JournalsHandler(req, gen, u, j, fault) ==
    CASE req.method = "GET"    -> JournalsGet(u, j, fault)
      [] req.method = "POST"   -> JournalsPost(req.body, gen, u, j, fault)
      [] req.method = "PUT"    -> JournalsPut(req.body, u, j, fault)
      [] req.method = "DELETE" -> JournalsDelete(req.query, u, j, fault)
      [] OTHER                 -> Response(405, NULL, "Method Not Allowed", u, j)

\* A request of the API: the path, the method, the JSON body, the query string.
Request(path, method, body, query) ==
    [path |-> path, method |-> method, body |-> body, query |-> query]

NoQuery == [id |-> UNDEFINED, action |-> UNDEFINED]

Handle(req, gen, u, j, fault) ==
    IF req.path = "/api/users"
    THEN UsersHandler(req, u, j, fault)
    ELSE JournalsHandler(req, gen, u, j, fault)

\* HTTP: response.ok is a status in 200..299.
Ok(status) == status \in 200..299

(***************************************************************************)
(* /api/login (src/unnamed/part_004, and its earlier revision part_003,    *)
(* which differs in the environment key and a response detail only).       *)
(***************************************************************************)
\* String.prototype.toLowerCase over the alphabet of the model.
LowerChar(c) ==
    CASE c = "A" -> "a"
      [] c = "B" -> "b"
      [] OTHER   -> c

toLowerCase(s) == [i \in DOMAIN s |-> LowerChar(s[i])]

\* The switch on role: the column that holds the login identifier.
UserColumn(role) ==
    CASE role = "STUDENT" -> "nisn"
      [] role = "TEACHER" -> "nip"
      [] role = "PARENT"  -> "nik"
      [] role = "ADMIN"   -> "nip"
      [] OTHER            -> NONE

\* .from('users').select('*').eq('role', role).eq(userColumn, identifier)
LoginSelect(store, role, column, identifier) ==
    {r \in store : r.role = role /\ r[column] = identifier}

\* .limit(1): the results the store may return, each an array of at most one
\* row (no ORDER BY: any matching row may be the one).
Limit1(rows) == IF rows = {} THEN {<<>>} ELSE {<<r>> : r \in rows}

LoginResponse(status, user) == [status |-> status, user |-> user]

\* Variant: the passwords compared as they are, letter case included.
LoginCheckExact(found, password) ==
    IF Len(found) > 0
    THEN IF found[1].password = password
         THEN LoginResponse(200, found[1])
         ELSE LoginResponse(401, NULL)
    ELSE LoginResponse(401, NULL)

\* The password check on the row found.
LoginCheck(found, password) ==
    IF Len(found) > 0
    THEN IF toLowerCase(found[1].password) = toLowerCase(password)
         THEN LoginResponse(200, found[1])
         ELSE LoginResponse(401, NULL)
    ELSE LoginResponse(401, NULL)

\* Variant: the required fields are checked before the method.
LoginHandlerFieldsFirst(method, body, store, outcome) ==
    IF body.role = NONE \/ body.identifier = NONE \/ body.password = <<>>
    THEN {LoginResponse(400, NULL)}
    ELSE IF method # "POST"
    THEN {LoginResponse(405, NULL)}
    ELSE IF UserColumn(body.role) = NONE
    THEN {LoginResponse(400, NULL)}
    ELSE IF outcome # "ok"
    THEN {LoginResponse(500, NULL)}
    ELSE {LoginCheck(found, body.password) :
            found \in Limit1(LoginSelect(store, body.role,
                                         UserColumn(body.role), body.identifier))}

\* The responses the handler may give.  `outcome` is what the store query
\* does: "ok", "error" (fetchError is set) or "throw" (the client throws).
LoginHandler(method, body, store, outcome) ==
    IF method # "POST"
    THEN {LoginResponse(405, NULL)}
    ELSE IF body.role = NONE \/ body.identifier = NONE \/ body.password = <<>>
    THEN {LoginResponse(400, NULL)}
    ELSE IF UserColumn(body.role) = NONE
    THEN {LoginResponse(400, NULL)}
    ELSE IF outcome = "throw"
    THEN {LoginResponse(500, NULL)}
    ELSE IF outcome = "error"
    THEN {LoginResponse(500, NULL)}
    ELSE {LoginCheck(found, body.password) :
            found \in Limit1(LoginSelect(store, body.role,
                                         UserColumn(body.role), body.identifier))}

\* ---- bounded stores and requests of SpecLogin ----
LoginIds       == {"u1", "u2"}
LoginIdents    == {"123", "456"}
LoginPasswords == {<<"a">>, <<"A">>, <<"b">>}
LoginColumns   == { <<"123", "456", "456">>, <<"456", "123", "456">>,
                    <<"456", "456", "123">> }

LoginRows ==
    { MkUser(id, "n1", role, c[1], c[2], c[3], pw) :
        id \in LoginIds, role \in Roles, c \in LoginColumns, pw \in LoginPasswords }

\* user ids are the primary key: at most one row per id
LoginStores ==
    {{}} \cup { {r} : r \in LoginRows }
         \cup { {r1, r2} : r1 \in {r \in LoginRows : r.id = "u1"},
                           r2 \in {r \in LoginRows : r.id = "u2"} }

LoginBodies ==
    [role : Roles \cup {NONE, "GURU"},
     identifier : LoginIdents \cup {NONE},
     password : LoginPasswords \cup {<<>>}]

NoLogin == [method |-> NONE, body |-> NULL, outcome |-> NONE]

(***************************************************************************)
(* The browser's localStorage, as used by loadState / saveState            *)
(* (src/unnamed/part_000) and by the stored-user functions                 *)
(* (src/src/utils/storage.ts).  An item is the empty sequence when the key *)
(* is absent (getItem returns null), the JSON text of a value, or a text   *)
(* that JSON.parse rejects.                                                *)
(***************************************************************************)
SettingKeys      == {"journalCategories", "attendanceSettings", "schoolName", "theme"}
USER_STORAGE_KEY == "simas_user"
StorageKeys      == SettingKeys \cup {USER_STORAGE_KEY}

ABSENT       == <<>>
CORRUPT      == <<"text">>
stringify(v) == <<"json", v>>
Parses(item) == Len(item) = 2 /\ item[1] = "json"
parse(item)  == item[2]

\* The values the settings are constructed with (useState(..)).
Placeholder(key) ==
    CASE key = "journalCategories"  -> "[]"
      [] key = "attendanceSettings" -> "07:00-09:00"
      [] key = "schoolName"         -> "SMP NEGERI 4 BALIKPAPAN"
      [] key = "theme"              -> "light"

\* The defaults fetchData hands to loadState.
Default(key) ==
    CASE key = "journalCategories"  -> "INITIAL_JOURNAL_CATEGORIES"
      [] key = "attendanceSettings" -> "07:00-09:00"
      [] key = "schoolName"         -> "SMP NEGERI 4 BALIKPAPAN"
      [] key = "theme"              -> "light"

saveState(ls, key, value) == [ls EXCEPT ![key] = stringify(value)]

\* loadState: the value returned, and localStorage after the call (an absent
\* key is given the default; an item that does not parse yields the default
\* and is left).
loadState(ls, key, defaultValue) ==
    IF ls[key] = ABSENT
    THEN [value |-> defaultValue, ls |-> saveState(ls, key, defaultValue)]
    ELSE IF Parses(ls[key])
    THEN [value |-> parse(ls[key]), ls |-> ls]
    ELSE [value |-> defaultValue, ls |-> ls]

getStoredUser(ls) ==
    IF ls[USER_STORAGE_KEY] = ABSENT THEN NULL
    ELSE IF Parses(ls[USER_STORAGE_KEY]) THEN parse(ls[USER_STORAGE_KEY])
    ELSE NULL

setStoredUser(ls, user) == [ls EXCEPT ![USER_STORAGE_KEY] = stringify(user)]

clearStoredUser(ls) == [ls EXCEPT ![USER_STORAGE_KEY] = ABSENT]

(***************************************************************************)
(* The client: component App (src/src/App.tsx and its later revision       *)
(* src/unnamed/part_001).  The component's state is gathered in a record   *)
(* so that a handler and the effects its state changes trigger compose     *)
(* into one step.                                                          *)
(***************************************************************************)
Revisions == {"App", "part_001"}

Client ==
    [isLoading |-> isLoading, error |-> error, currentUser |-> currentUser,
     users |-> users, journalEntries |-> journalEntries,
     isInitialLoad |-> isInitialLoad, inflight |-> inflight, nIssued |-> nIssued,
     settings |-> settings, localStorage |-> localStorage,
     settingsLoaded |-> settingsLoaded, nLogin |-> nLogin]

Commit(c) ==
    /\ isLoading' = c.isLoading
    /\ error' = c.error
    /\ currentUser' = c.currentUser
    /\ users' = c.users
    /\ journalEntries' = c.journalEntries
    /\ isInitialLoad' = c.isInitialLoad
    /\ inflight' = c.inflight
    /\ nIssued' = c.nIssued
    /\ settings' = c.settings
    /\ localStorage' = c.localStorage
    /\ settingsLoaded' = c.settingsLoaded
    /\ nLogin' = c.nLogin

\* The result of one fetch() of fetchData: not yet there, or a response with
\* the rows its body decodes to (none unless the response is ok).
Pending == [kind |-> "pending", body |-> {}]
Fetched(status, body) ==
    [kind |-> IF Ok(status) THEN "ok" ELSE "notok",
     body |-> IF Ok(status) THEN body ELSE {}]

\* if (isLoading) splash; if (error) error screen; if (!currentUser) login;
\* else the dashboard of the user's role
ViewOf(c) ==
    IF c.isLoading THEN "splash"
    ELSE IF c.error THEN "error"
    ELSE IF c.currentUser = NULL THEN "login"
    ELSE "dashboard"

View == ViewOf(Client)

\* fetchData up to its await: the loading flag, the error reset, the two
\* fetches issued together.  forMut is the mutation handler call awaiting
\* this fetchData, with the status it got (NULL for the other triggers).
fetchDataStart(c, forMut) ==
    LET initial == IF rev = "App" THEN c.users = {} ELSE c.isInitialLoad
    IN  [c EXCEPT !.isLoading = IF initial THEN TRUE ELSE @,
                  !.error = FALSE,
                  !.inflight = Append(@, [usersRes |-> Pending, journalsRes |-> Pending,
                                          forMut |-> forMut, superseded |-> FALSE])]

\* Promise.all resolves once both fetches have responded.
Settled(r) == r.usersRes.kind # "pending" /\ r.journalsRes.kind # "pending"

\* The try block runs to its end: both responses ok and both bodies decoded
\* (decodes: whether response.json() succeeds on both).
Succeeds(r, decodes) ==
    r.usersRes.kind = "ok" /\ r.journalsRes.kind = "ok" /\ decodes

RemoveAt(seq, i) == [k \in 1..(Len(seq) - 1) |-> IF k < i THEN seq[k] ELSE seq[k + 1]]

\* Variant: fetchData without its finally block.
fetchDataNoFinally(c) == c

\* finally: the loading flag (and, in part_001, the initial-load mark)
fetchDataFinally(c) ==
    IF rev = "App"
    THEN [c EXCEPT !.isLoading = FALSE]
    ELSE IF c.isInitialLoad
    THEN [c EXCEPT !.isLoading = FALSE, !.isInitialLoad = FALSE]
    ELSE c

\* Variant: the users response is installed as soon as it is ok, whatever
\* became of the journals response.
fetchDataSettlePartial(c, i, succeeds) ==
    LET r    == c.inflight[i]
        rest == RemoveAt(c.inflight, i)
        done == IF succeeds
                THEN [c EXCEPT !.users = r.usersRes.body,
                               !.journalEntries = r.journalsRes.body,
                               !.inflight = rest]
                ELSE IF r.usersRes.kind = "ok"
                THEN [c EXCEPT !.users = r.usersRes.body,
                               !.error = TRUE, !.inflight = rest]
                ELSE [c EXCEPT !.error = TRUE, !.inflight = rest]
    IN  fetchDataFinally(done)

\* The four setX(loadState(key, default)) lines of the try block.
LoadSettings(c) ==
    [c EXCEPT !.settings = [k \in SettingKeys |->
                               loadState(c.localStorage, k, Default(k)).value],
              !.localStorage = [k \in StorageKeys |->
                               IF k \in SettingKeys
                               THEN loadState(c.localStorage, k, Default(k)).ls[k]
                               ELSE c.localStorage[k]],
              !.settingsLoaded = TRUE]

\* fetchData after its await, for the i-th call in flight: when the try
\* block succeeds both collections are replaced, otherwise the catch block
\* sets the error message.  A call issued earlier and still in flight is
\* marked superseded.
fetchDataSettle(c, i, succeeds) ==
    LET r    == c.inflight[i]
        rest == RemoveAt([k \in 1..Len(c.inflight) |->
                            IF k < i /\ succeeds
                            THEN [c.inflight[k] EXCEPT !.superseded = TRUE]
                            ELSE c.inflight[k]], i)
        set  == [c EXCEPT !.users = r.usersRes.body,
                          !.journalEntries = r.journalsRes.body,
                          !.inflight = rest]
        done == IF succeeds
                THEN IF rev = "App" \/ c.isInitialLoad THEN LoadSettings(set) ELSE set
                ELSE [c EXCEPT !.error = TRUE, !.inflight = rest]
    IN  fetchDataFinally(done)

\* Variant: the signed-in user is signed out when its record is gone, but
\* is not replaced when its record changed.
ReconcileStale(c) ==
    IF c.currentUser = NULL THEN c
    ELSE IF {u \in c.users : u.id = c.currentUser.id} # {}
    THEN c
    ELSE [c EXCEPT !.currentUser = NULL]

\* useEffect on [users, currentUser]: the signed-in user follows its record
\* in users, and is signed out when the record is gone.
Reconcile(c) ==
    IF c.currentUser = NULL THEN c
    ELSE LET found == {u \in c.users : u.id = c.currentUser.id}
         IN  IF found # {}
             THEN [c EXCEPT !.currentUser = CHOOSE u \in found : TRUE]
             ELSE [c EXCEPT !.currentUser = NULL]

\* useEffect(() => { fetchData(); }, [fetchData]): in App.tsx fetchData is
\* re-created whenever users.length changes, so the effect runs again; in
\* part_001 fetchData never changes.
RefetchEffect(before, c) ==
    IF rev = "App" /\ Cardinality(c.users) # Cardinality(before.users)
    THEN fetchDataStart(c, NULL)
    ELSE c

\* The four save effects.  App.tsx: useEffect(() => { if (!isLoading)
\* saveState(key, value); }, [value, isLoading]) runs when its value or
\* isLoading changed.  part_001: useEffect(() => { if
\* (!isInitialLoad.current) saveState(key, value); }, [value]) runs when its
\* value changed.
SaveEffect(before, c) ==
    LET Saves(k) ==
            IF rev = "App"
            THEN /\ ~c.isLoading
                 /\ (c.settings[k] # before.settings[k] \/ c.isLoading # before.isLoading)
            ELSE /\ ~c.isInitialLoad
                 /\ c.settings[k] # before.settings[k]
    IN  [c EXCEPT !.localStorage =
            [k \in StorageKeys |->
                IF k \in SettingKeys /\ Saves(k)
                THEN stringify(c.settings[k])
                ELSE c.localStorage[k]]]

\* The effects that run after a handler changed the state from `before` to c.
Effects(before, c) == RefetchEffect(before, Reconcile(SaveEffect(before, c)))

\* ---- the inputs of the client's handlers ----
Names      == {"n2"}                       \* the name an edit gives
Contents   == {"c2"}                       \* the content an entry is given
JournalIdSeq == <<"j1", "j2", "j3">>       \* the ids the store generates, in order
NewUsers   == { MkUser("u3", "n1", "TEACHER", NONE, "u3", NONE, <<"a">>) }
UserIds    == {"u1", "u2", "u3"}

\* A call of a mutation handler: which handler, and the request it sends.
Call(kind, req) == [kind |-> kind, req |-> req]

QueryId(id) == [id |-> id, action |-> UNDEFINED]

handleAddJournal(newJournalData) ==
    Call("addJournal", Request("/api/journals", "POST", newJournalData, NoQuery))
handleUpdateJournal(updatedJournal) ==
    Call("updateJournal", Request("/api/journals", "PUT", updatedJournal, NoQuery))
handleDeleteJournal(journalId) ==
    Call("deleteJournal", Request("/api/journals", "DELETE", NULL, QueryId(journalId)))
handleAddUser(newUser) ==
    Call("addUser", Request("/api/users", "POST", newUser, NoQuery))
handleUpdateUser(updatedUser) ==
    Call("updateUser", Request("/api/users", "PUT", updatedUser, NoQuery))
handleDeleteUser(userId) ==
    Call("deleteUser", Request("/api/users", "DELETE", NULL, QueryId(userId)))
handleResetData ==
    Call("resetData", Request("/api/users", "DELETE", NULL,
                              [id |-> UNDEFINED, action |-> "reset_application_data"]))

\* DashboardComponent: the handlers each role's dashboard is given, with the
\* arguments the dashboard can pass from the state it is shown.
DashboardCalls(c) ==
    LET journalCalls ==
            {handleUpdateJournal([e EXCEPT !.content = x]) :
                e \in c.journalEntries, x \in Contents}
        studentCalls ==
            {handleAddJournal(MkJournal(NONE, c.currentUser.id, x)) : x \in Contents}
            \cup journalCalls
            \cup {handleDeleteJournal(e.id) : e \in c.journalEntries}
        adminCalls ==
            {handleAddUser(u) : u \in NewUsers}
            \cup {handleUpdateUser([u EXCEPT !.name = n]) : u \in c.users, n \in Names}
            \cup {handleDeleteUser(u.id) : u \in c.users}
            \cup {handleResetData}
    IN  CASE c.currentUser.role = "STUDENT" -> studentCalls
          [] c.currentUser.role = "TEACHER" -> journalCalls
          [] c.currentUser.role = "PARENT"  -> {}
          [] c.currentUser.role = "ADMIN"   -> adminCalls
          [] OTHER                          -> {}

\* The store calls a request makes, any of which may fail.
FaultsOf(req) ==
    {{}} \cup
    CASE req.method = "GET" /\ req.path = "/api/users"
                               -> {{"count"}, {"insert"}, {"select"}}
      [] req.method = "GET"    -> {{"select"}}
      [] req.method = "POST"   -> {{"insert"}}
      [] req.method = "PUT"    -> {{"update"}}
      [] req.method = "DELETE" /\ req.query.action = "reset_application_data"
                               -> {{"nokey"}, {"deljournals"}, {"delusers"},
                                   {"deljournals", "delusers"}}
      [] req.method = "DELETE" -> {{"delete"}}
      [] OTHER                 -> {}

\* Whether the store generates an id for this request.
Generates(req) ==
    req.path = "/api/journals" /\ req.method = "POST" /\ req.body.id = NONE

NextId == IF dbNextId < Len(JournalIdSeq) THEN JournalIdSeq[dbNextId + 1] ELSE UNDEFINED

\* A request reaches its handler: the response, and the tables after it.
Served(req, fault) == Handle(req, NextId, dbUsers, dbJournals, fault)

Serve(req, res) ==
    /\ Generates(req) => NextId # UNDEFINED
    /\ dbUsers' = res.users
    /\ dbJournals' = res.journals
    /\ dbNextId' = IF Generates(req) /\ res.status = 201 THEN dbNextId + 1 ELSE dbNextId
    /\ UNCHANGED nOther

GetUsers    == Request("/api/users", "GET", NULL, NoQuery)
GetJournals == Request("/api/journals", "GET", NULL, NoQuery)

NoSettled  == [call |-> NULL, outcome |-> NONE, status |-> 0]
SettledAs(call, outcome, status) == [call |-> call, outcome |-> outcome, status |-> status]
NoApi      == [request |-> Request(NONE, NONE, NULL, NoQuery), fault |-> {}]

ClientInit ==
    /\ mounted = FALSE
    /\ isLoading = TRUE
    /\ error = FALSE
    /\ currentUser = NULL
    /\ users = {}
    /\ journalEntries = {}
    /\ isInitialLoad = TRUE
    /\ settings = [k \in SettingKeys |-> Placeholder(k)]
    /\ settingsLoaded = FALSE
    /\ inflight = <<>>
    /\ muts = <<>>
    /\ lastSettled = NoSettled
    /\ nIssued = 0
    /\ nMut = 0
    /\ nLogin = 0

\* localStorage of a browser in which the application ran before: no stored
\* user, and the settings as the application is constructed with them.
UsedStorage ==
    [k \in StorageKeys |->
        IF k \in SettingKeys THEN stringify(Placeholder(k)) ELSE ABSENT]

ApiIdle   == apiReq = NoApi /\ apiRes = NULL /\ nApi = 0 /\ gets = <<>>
LoginIdle == loginReq = NoLogin /\ loginRes = NULL

\* The store when the client starts: in use, with an edited roster and a
\* journal entry.
InitStores ==
    { [users |-> { MkUser("u1", "n0", "ADMIN",   NONE, "u1", NONE, <<"a">>),
                   MkUser("u2", "n1", "STUDENT", "u2", NONE, NONE, <<"a">>) },
       journals |-> {MkJournal("j1", "u2", "c1")},
       nextId |-> 1] }

Init ==
    /\ rev \in Revisions
    /\ \E st \in InitStores :
          dbUsers = st.users /\ dbJournals = st.journals /\ dbNextId = st.nextId
    /\ nOther = 0
    /\ ClientInit
    /\ localStorage = UsedStorage
    /\ ApiIdle
    /\ LoginIdle

\* ---- the triggers of fetchData ----
\* the mount effect (useEffect(() => { fetchData(); }, [fetchData]))
Mount ==
    /\ ~mounted
    /\ mounted' = TRUE
    /\ Commit([fetchDataStart(Client, NULL) EXCEPT !.nIssued = @ + 1])
    /\ UNCHANGED <<storeVars, rev, muts, lastSettled, nMut, apiVars, loginVars>>

\* the visibilitychange listener, when the document becomes visible
VisibilityChange ==
    /\ mounted
    /\ nIssued < MaxRefresh
    /\ Len(inflight) < MaxInflight
    /\ Commit([fetchDataStart(Client, NULL) EXCEPT !.nIssued = @ + 1])
    /\ UNCHANGED <<storeVars, rev, mounted, muts, lastSettled, nMut, apiVars, loginVars>>

\* ErrorScreen onRetry={fetchData}
Retry ==
    /\ mounted
    /\ View = "error"
    /\ nIssued < MaxRefresh
    /\ Len(inflight) < MaxInflight
    /\ Commit([fetchDataStart(Client, NULL) EXCEPT !.nIssued = @ + 1])
    /\ UNCHANGED <<storeVars, rev, mounted, muts, lastSettled, nMut, apiVars, loginVars>>

\* ---- the two fetches of a fetchData call ----
ServeUsers(i) ==
    /\ inflight[i].usersRes.kind = "pending"
    /\ \E fault \in FaultsOf(GetUsers) :
          LET res == Served(GetUsers, fault)
          IN  /\ Serve(GetUsers, res)
              /\ inflight' = [inflight EXCEPT
                                ![i].usersRes = Fetched(res.status, res.body)]
    /\ UNCHANGED <<rev, mounted, isLoading, error, currentUser, users, journalEntries,
                   isInitialLoad, localVars, nLogin, muts, lastSettled, nIssued, nMut, apiVars, loginVars>>

ServeJournals(i) ==
    /\ inflight[i].journalsRes.kind = "pending"
    /\ \E fault \in FaultsOf(GetJournals) :
          LET res == Served(GetJournals, fault)
          IN  /\ Serve(GetJournals, res)
              /\ inflight' = [inflight EXCEPT
                                ![i].journalsRes = Fetched(res.status, res.body)]
    /\ UNCHANGED <<rev, mounted, isLoading, error, currentUser, users, journalEntries,
                   isInitialLoad, localVars, nLogin, muts, lastSettled, nIssued, nMut, apiVars, loginVars>>

\* fetchData resumes after its await and runs to its end, the effects of
\* the state change run, and a mutation handler awaiting the call resolves.
Resume(i, succeeds) ==
    /\ LET c == Effects(Client, fetchDataSettle(Client, i, succeeds))
       IN  /\ Len(c.inflight) <= MaxInflight
           /\ Commit(c)
    /\ lastSettled' = IF inflight[i].forMut # NULL
                      THEN SettledAs(inflight[i].forMut.call, "resolved",
                                     inflight[i].forMut.status)
                      ELSE lastSettled
    /\ UNCHANGED <<storeVars, rev, mounted, muts, nMut, apiVars, loginVars>>

\* one of the two fetches fails at the network level while the call awaits:
\* Promise.all rejects at once and the catch block runs
FetchFails(i) ==
    /\ ~Settled(inflight[i])
    /\ Resume(i, FALSE)

\* both responses are there: the status checks and the decoding of the two
\* bodies, which may fail
SettleFetch(i) ==
    /\ Settled(inflight[i])
    /\ \E decodes \in BOOLEAN : Resume(i, Succeeds(inflight[i], decodes))

\* ---- login and logout ----
handleLogin(userId) ==
    /\ mounted
    /\ View = "login"
    /\ nLogin < MaxLogin
    /\ LET found == {u \in users : u.id = userId}
       IN  Commit(Effects(Client,
                  IF found # {}
                  THEN [Client EXCEPT !.currentUser = CHOOSE u \in found : TRUE,
                                      !.nLogin = @ + 1]
                  ELSE Client))
    /\ UNCHANGED <<storeVars, rev, mounted, muts, lastSettled, nMut, apiVars, loginVars>>

handleLogout ==
    /\ mounted
    /\ View = "dashboard"
    /\ Commit(Effects(Client, [Client EXCEPT !.currentUser = NULL]))
    /\ UNCHANGED <<storeVars, rev, mounted, muts, lastSettled, nMut, apiVars, loginVars>>

\* ---- the mutation handlers ----
\* a dashboard calls a handler, which sends its request and awaits the response
CallMutation ==
    /\ mounted
    /\ View = "dashboard"
    /\ nMut < MaxMut
    /\ \E call \in DashboardCalls(Client) :
          muts' = Append(muts, [call |-> call, status |-> 0])
    /\ nMut' = nMut + 1
    /\ UNCHANGED <<storeVars, rev, mounted, isLoading, error, currentUser, users,
                   journalEntries, isInitialLoad, localVars, nLogin, inflight, lastSettled, nIssued,
                   apiVars, loginVars>>

\* the request reaches the API
ServeMutation(k) ==
    /\ muts[k].status = 0
    /\ \E fault \in FaultsOf(muts[k].call.req) :
          LET res == Served(muts[k].call.req, fault)
          IN  /\ Serve(muts[k].call.req, res)
              /\ muts' = [muts EXCEPT ![k].status = res.status]
    /\ UNCHANGED <<rev, mounted, isLoading, error, currentUser, users, journalEntries,
                   isInitialLoad, localVars, nLogin, inflight, lastSettled, nIssued, nMut, apiVars, loginVars>>

\* the handler's fetch fails at the network level: the handler rejects
MutationFails(k) ==
    /\ k \in DOMAIN muts
    /\ muts' = RemoveAt(muts, k)
    /\ lastSettled' = SettledAs(muts[k].call, "rejected", 0)
    /\ UNCHANGED <<storeVars, rev, mounted, isLoading, error, currentUser, users,
                   journalEntries, isInitialLoad, localVars, nLogin, inflight, nIssued, nMut,
                   apiVars, loginVars>>

\* Variant: the handler without its `if (!response.ok) throw`.
ReceiveMutationUnchecked(k) ==
    /\ muts[k].status # 0
    /\ muts' = RemoveAt(muts, k)
    /\ Len(inflight) < MaxInflight
    /\ Commit(fetchDataStart(Client, muts[k]))
    /\ UNCHANGED lastSettled
    /\ UNCHANGED <<storeVars, rev, mounted, nMut, apiVars, loginVars>>

\* the response arrives: if (!response.ok) throw ...; await fetchData()
ReceiveMutation(k) ==
    /\ muts[k].status # 0
    /\ muts' = RemoveAt(muts, k)
    /\ IF ~Ok(muts[k].status)
       THEN /\ lastSettled' = SettledAs(muts[k].call, "rejected", muts[k].status)
            /\ UNCHANGED <<isLoading, error, currentUser, users, journalEntries,
                           isInitialLoad, localVars, nLogin, inflight, nIssued>>
       ELSE /\ Len(inflight) < MaxInflight
            /\ Commit(fetchDataStart(Client, muts[k]))
            /\ UNCHANGED lastSettled
    /\ UNCHANGED <<storeVars, rev, mounted, nMut, apiVars, loginVars>>

\* ---- another session of the application ----
\* an admin signed in elsewhere deletes the account that is signed in here
\* (handleDeleteUser there); this client sees nothing of it until it fetches
OtherSession ==
    /\ mounted
    /\ nOther < MaxOther
    /\ currentUser # NULL
    /\ \E u \in {r \in dbUsers : r.id = currentUser.id} :
          LET req == handleDeleteUser(u.id).req
              res == Served(req, {})
          IN  /\ dbUsers' = res.users
              /\ dbJournals' = res.journals
    /\ nOther' = nOther + 1
    /\ UNCHANGED <<dbNextId, clientVars, apiVars, loginVars>>

Next ==
    \/ Mount
    \/ VisibilityChange
    \/ Retry
    \/ \E i \in DOMAIN inflight : ServeUsers(i)
    \/ \E i \in DOMAIN inflight : ServeJournals(i)
    \/ \E i \in DOMAIN inflight : FetchFails(i)
    \/ \E i \in DOMAIN inflight : SettleFetch(i)
    \/ \E userId \in UserIds : handleLogin(userId)
    \/ handleLogout
    \/ CallMutation
    \/ \E k \in DOMAIN muts : ServeMutation(k)
    \/ \E k \in DOMAIN muts : MutationFails(k)
    \/ \E k \in DOMAIN muts : ReceiveMutation(k)
    \/ OtherSession

Spec == Init /\ [][Next]_vars

(***************************************************************************)
(* SpecLive: the client, with every HTTP request eventually answered or    *)
(* failed and every answer eventually handled.                             *)
(***************************************************************************)
\* A request under way gets its response or its failure, or a response
\* that arrived is handled.
Progress ==
    \/ \E i \in DOMAIN inflight : ServeUsers(i)
    \/ \E i \in DOMAIN inflight : ServeJournals(i)
    \/ \E i \in DOMAIN inflight : FetchFails(i)
    \/ \E i \in DOMAIN inflight : SettleFetch(i)
    \/ \E k \in DOMAIN muts : ServeMutation(k)
    \/ \E k \in DOMAIN muts : MutationFails(k)
    \/ \E k \in DOMAIN muts : ReceiveMutation(k)

\* The mutation handlers called in SpecLive; every handler has the same
\* shape (await fetch, throw unless response.ok, await fetchData()), and
\* handleAddUser changes users.length.
LiveHandlers == {"addUser"}

NextLive ==
    \/ Mount
    \/ VisibilityChange
    \/ Retry
    \/ \E userId \in UserIds : handleLogin(userId)
    \/ (CallMutation /\ muts'[Len(muts')].call.kind \in LiveHandlers)
    \/ Progress

SpecLive == Init /\ [][NextLive]_vars /\ WF_vars(Progress)

(***************************************************************************)
(* SpecLocal: the client and the browser's localStorage (the settings and  *)
(* the stored user), without the mutation handlers.                        *)
(***************************************************************************)
\* A value of each setting that is neither its placeholder nor its default.
CustomValue(key) ==
    CASE key = "journalCategories"  -> "custom categories"
      [] key = "attendanceSettings" -> "08:00-10:00"
      [] key = "schoolName"         -> "custom name"
      [] key = "theme"              -> "dark"

\* What localStorage may hold when the application starts: nothing, settings
\* somebody chose, the settings the application is constructed with, or
\* items that do not parse.
LocalStorages ==
    { [k \in StorageKeys |-> IF k \in SettingKeys THEN ABSENT ELSE ABSENT],
      [k \in StorageKeys |-> IF k \in SettingKeys THEN stringify(CustomValue(k)) ELSE ABSENT],
      UsedStorage,
      [k \in StorageKeys |-> IF k \in SettingKeys THEN CORRUPT ELSE ABSENT] }

\* StoredUser: the projection of a user that the session store keeps.
StoredUserOf(u) == [id |-> u.id, name |-> u.name, role |-> u.role]

InitLocal ==
    /\ rev \in Revisions
    /\ \E st \in InitStores :
          dbUsers = st.users /\ dbJournals = st.journals /\ dbNextId = st.nextId
    /\ nOther = 0
    /\ ClientInit
    /\ localStorage \in LocalStorages
    /\ ApiIdle
    /\ LoginIdle

\* Layout's theme switch: setTheme(prev => prev === 'light' ? 'dark' : 'light')
toggleTheme ==
    /\ mounted
    /\ View = "dashboard"
    /\ Commit(Effects(Client,
               [Client EXCEPT !.settings["theme"] =
                                  IF @ = "light" THEN "dark" ELSE "light"]))
    /\ UNCHANGED <<storeVars, rev, mounted, muts, lastSettled, nMut, apiVars, loginVars>>

\* AdminDashboard onJournalCategoriesChange={setJournalCategories}
setJournalCategories(value) ==
    /\ mounted
    /\ View = "dashboard"
    /\ currentUser.role = "ADMIN"
    /\ Commit(Effects(Client, [Client EXCEPT !.settings["journalCategories"] = value]))
    /\ UNCHANGED <<storeVars, rev, mounted, muts, lastSettled, nMut, apiVars, loginVars>>

\* AdminDashboard onAttendanceSettingsChange={setAttendanceSettings}
setAttendanceSettings(value) ==
    /\ mounted
    /\ View = "dashboard"
    /\ currentUser.role = "ADMIN"
    /\ Commit(Effects(Client, [Client EXCEPT !.settings["attendanceSettings"] = value]))
    /\ UNCHANGED <<storeVars, rev, mounted, muts, lastSettled, nMut, apiVars, loginVars>>

\* setStoredUser(user) of storage.ts, called for the user who is signed in
\* (the callers of storage.ts are not among the sources).
StoreUser ==
    /\ mounted
    /\ currentUser # NULL
    /\ localStorage' = setStoredUser(localStorage, StoredUserOf(currentUser))
    /\ UNCHANGED <<storeVars, rev, mounted, isLoading, error, currentUser, users,
                   journalEntries, isInitialLoad, settings, settingsLoaded, nLogin,
                   inflight, muts, lastSettled, nIssued, nMut, apiVars, loginVars>>

NextLocal ==
    \/ Mount
    \/ VisibilityChange
    \/ Retry
    \/ \E i \in DOMAIN inflight : ServeUsers(i)
    \/ \E i \in DOMAIN inflight : ServeJournals(i)
    \/ \E i \in DOMAIN inflight : FetchFails(i)
    \/ \E i \in DOMAIN inflight : SettleFetch(i)
    \/ \E userId \in UserIds : handleLogin(userId)
    \/ handleLogout
    \/ toggleTheme
    \/ setJournalCategories(CustomValue("journalCategories"))
    \/ setAttendanceSettings(CustomValue("attendanceSettings"))
    \/ StoreUser

SpecLocal == InitLocal /\ [][NextLocal]_vars

(***************************************************************************)
(* SpecApi: requests sent to /api/users and /api/journals directly.        *)
(***************************************************************************)
ApiUserBodies ==
    { MkUser(id, name, role, NONE, NONE, NONE, <<"a">>) :
        id \in {"u1", "u2", NONE}, name \in {"n1", "n2"}, role \in {"STUDENT", "TEACHER"} }

ApiJournalBodies ==
    { MkJournal(id, studentId, "c1") : id \in {"j1", "j2", NONE}, studentId \in {"u1", "u2"} }

ApiQueries ==
    [id : {"u1", "j1", UNDEFINED}, action : {"reset_application_data", UNDEFINED}]

ApiRequests ==
    LET on(path, bodies) ==
            {Request(path, m, NULL, NoQuery) : m \in {"GET", "PATCH"}}
            \cup {Request(path, m, b, NoQuery) : m \in {"POST", "PUT"}, b \in bodies}
            \cup {Request(path, "DELETE", NULL, q) : q \in ApiQueries}
    IN  on("/api/users", ApiUserBodies) \cup on("/api/journals", ApiJournalBodies)

InitApi ==
    /\ dbUsers = {}
    /\ dbJournals = {}
    /\ dbNextId = 0
    /\ nOther = 0
    /\ rev = "App"
    /\ ClientInit
    /\ localStorage = UsedStorage
    /\ ApiIdle
    /\ LoginIdle

ApiCall ==
    /\ nApi < MaxApi
    /\ \E req \in ApiRequests : \E fault \in FaultsOf(req) :
          LET res == Served(req, fault)
          IN  /\ Serve(req, res)
              /\ apiReq' = [request |-> req, fault |-> fault]
              /\ apiRes' = [status |-> res.status, body |-> res.body,
                            message |-> res.message]
    /\ nApi' = nApi + 1
    /\ UNCHANGED gets
    /\ UNCHANGED <<clientVars, loginVars>>

NextApi == ApiCall

SpecApi == InitApi /\ [][NextApi]_vars

(***************************************************************************)
(* SpecSeed: GET /api/users requests served at the same time.  The handler *)
(* awaits three queries (count, insert when the count is 0, select); the   *)
(* queries of different requests interleave.  The store answers every      *)
(* query; an insert of a row whose id is already in the table is rejected. *)
(***************************************************************************)
\* A GET /api/users request at the query it awaits next.
GetAt(pc, status, body) == [pc |-> pc, status |-> status, body |-> body]

InitSeed ==
    /\ dbUsers \in {{}, INITIAL_USERS}
    /\ dbJournals = {}
    /\ dbNextId = 0
    /\ nOther = 0
    /\ rev = "App"
    /\ ClientInit
    /\ localStorage = UsedStorage
    /\ ApiIdle
    /\ LoginIdle

\* The handler is entered for a new request.
GetStart ==
    /\ Len(gets) < MaxGets
    /\ gets' = Append(gets, GetAt("count", 0, {}))
    /\ UNCHANGED <<storeVars, clientVars, apiReq, apiRes, nApi, loginVars>>

\* select('*', { count: 'exact', head: true }) resolves.
GetCount(i) ==
    /\ gets[i].pc = "count"
    /\ gets' = [gets EXCEPT ![i].pc = IF Cardinality(dbUsers) = 0
                                       THEN "insert" ELSE "select"]
    /\ UNCHANGED <<storeVars, clientVars, apiReq, apiRes, nApi, loginVars>>

\* insert(INITIAL_USERS) resolves: with an error when a row of the seed is
\* already there, and then the catch block answers 500.
GetInsert(i) ==
    /\ gets[i].pc = "insert"
    /\ IF Ids(INITIAL_USERS) \cap Ids(dbUsers) # {}
       THEN /\ gets' = [gets EXCEPT ![i] = GetAt("done", 500, {})]
            /\ UNCHANGED dbUsers
       ELSE /\ gets' = [gets EXCEPT ![i].pc = "select"]
            /\ dbUsers' = dbUsers \cup INITIAL_USERS
    /\ UNCHANGED <<dbJournals, dbNextId, nOther, clientVars, apiReq, apiRes, nApi,
                   loginVars>>

\* select('*').order('name') resolves and the handler answers 200.
GetSelect(i) ==
    /\ gets[i].pc = "select"
    /\ gets' = [gets EXCEPT ![i] = GetAt("done", 200, dbUsers)]
    /\ UNCHANGED <<storeVars, clientVars, apiReq, apiRes, nApi, loginVars>>

NextSeed ==
    \/ GetStart
    \/ \E i \in DOMAIN gets : GetCount(i)
    \/ \E i \in DOMAIN gets : GetInsert(i)
    \/ \E i \in DOMAIN gets : GetSelect(i)

SpecSeed == InitSeed /\ [][NextSeed]_vars

(***************************************************************************)
(* SpecLogin: requests sent to /api/login.                                 *)
(***************************************************************************)
InitLogin ==
    /\ dbUsers \in LoginStores
    /\ dbJournals = {}
    /\ dbNextId = 0
    /\ nOther = 0
    /\ rev = "App"
    /\ ClientInit
    /\ localStorage = UsedStorage
    /\ ApiIdle
    /\ LoginIdle

LoginCall ==
    /\ loginRes = NULL
    /\ \E method \in {"POST", "GET"}, body \in LoginBodies,
       outcome \in {"ok", "error", "throw"} :
          /\ loginReq' = [method |-> method, body |-> body, outcome |-> outcome]
          /\ loginRes' \in LoginHandler(method, body, dbUsers, outcome)
          /\ UNCHANGED <<storeVars, clientVars, apiVars>>

NextLogin == LoginCall

SpecLogin == InitLogin /\ [][NextLogin]_vars

(***************************************************************************)
(* Properties of the client (Spec).                                        *)
(***************************************************************************)
\* The i-th fetchData call in flight runs its try block to the end.
ResumesOk(i) ==
    /\ Settled(inflight[i])
    /\ Succeeds(inflight[i], TRUE)
    /\ Resume(i, TRUE)

\* The i-th fetchData call in flight ends in its catch block.
ResumesFailed(i) == Resume(i, FALSE)

\* C1: fetchData replaces users and journalEntries as one pair.  Every step
\* that changes either collection installs the users payload and the
\* journals payload of one and the same fetchData call, both of whose
\* fetches responded ok; a fetchData call that fails (a non-OK status, a
\* network failure, an undecodable body) changes neither collection.
C1_AtomicPair ==
    [][ /\ (users' # users \/ journalEntries' # journalEntries) =>
             \E i \in DOMAIN inflight :
                /\ inflight[i].usersRes.kind = "ok"
                /\ inflight[i].journalsRes.kind = "ok"
                /\ users' = inflight[i].usersRes.body
                /\ journalEntries' = inflight[i].journalsRes.body
        /\ \A i \in DOMAIN inflight :
              (ResumesFailed(i) \/ (SettleFetch(i) /\ ~Succeeds(inflight[i], TRUE)))
                 => UNCHANGED <<users, journalEntries>> ]_vars

\* A refresh installed a pair, and a later refresh failed: the pair is kept.
C1_Witness ==
    /\ users # {}
    /\ journalEntries # {}
    /\ error
    /\ nIssued >= 2
    /\ inflight = <<>>

\* C2: a fetchData call that was issued before another one, and whose
\* responses are handled after that later call has installed its payloads,
\* does not overwrite users and journalEntries.
C2_StaleDiscarded ==
    [][ \A i \in DOMAIN inflight :
           (inflight[i].superseded /\ (FetchFails(i) \/ SettleFetch(i)))
              => UNCHANGED <<users, journalEntries>> ]_vars

\* C3: when the response to a mutation handler's request is not OK, the
\* handler rejects, no fetchData call is started, and users,
\* journalEntries, currentUser, error and isLoading are what they were.
C3_RejectedMutation ==
    [][ \A k \in DOMAIN muts :
           (/\ muts[k].status # 0
            /\ ~Ok(muts[k].status)
            /\ muts' = RemoveAt(muts, k))
           => /\ lastSettled'.call = muts[k].call
              /\ lastSettled'.outcome = "rejected"
              /\ UNCHANGED <<inflight, nIssued>>
              /\ UNCHANGED <<users, journalEntries, currentUser, error, isLoading>> ]_vars

\* A handler rejected on a non-OK response while a user was signed in.
C3_Witness ==
    /\ lastSettled.outcome = "rejected"
    /\ lastSettled.status >= 400
    /\ currentUser # NULL
    /\ users # {}

\* What it means for users and journalEntries to reflect a mutation.
Reflects(call, us, js) ==
    CASE call.kind = "addJournal" ->
            \E e \in js : /\ e.studentId = call.req.body.studentId
                          /\ e.content = call.req.body.content
      [] call.kind = "updateJournal" -> call.req.body \in js
      [] call.kind = "deleteJournal" -> call.req.query.id \notin Ids(js)
      [] call.kind = "addUser"       -> call.req.body \in us
      [] call.kind = "updateUser"    -> call.req.body \in us
      [] call.kind = "deleteUser"    -> call.req.query.id \notin Ids(us)
      [] OTHER                       -> TRUE

\* C4: in App.tsx, when a mutation handler's promise resolves, users and
\* journalEntries reflect the mutation: the record created or updated is
\* there with its new values, the deleted id is gone.
C4_ResolvedReflected ==
    [][ \A i \in DOMAIN inflight :
           (/\ rev = "App"
            /\ inflight[i].forMut # NULL
            /\ (FetchFails(i) \/ SettleFetch(i)))
           => Reflects(inflight[i].forMut.call, users', journalEntries') ]_vars

\* C5: in App.tsx, when a fetchData call succeeds and its users payload no
\* longer holds the record of the signed-in user, currentUser becomes null
\* and the login view is the one rendered.
C5_ForcedLogout ==
    [][ \A i \in DOMAIN inflight :
           (/\ rev = "App"
            /\ currentUser # NULL
            /\ Settled(inflight[i])
            /\ Succeeds(inflight[i], TRUE)
            /\ currentUser.id \notin Ids(inflight[i].usersRes.body)
            /\ ResumesOk(i))
           => /\ currentUser' = NULL
              /\ View' = "login" ]_vars

\* C6: in App.tsx, when a fetchData call fails while the dashboard shows
\* the payloads of an earlier call, the dashboard stays the view rendered
\* and users and journalEntries are unchanged.
C6_StaysReady ==
    [][ \A i \in DOMAIN inflight :
           (/\ rev = "App"
            /\ View = "dashboard"
            /\ users # {}
            /\ ResumesFailed(i))
           => /\ View' = "dashboard"
              /\ UNCHANGED <<users, journalEntries>> ]_vars

\* C7: when handleResetData got 200 for its request and the fetchData call
\* it awaits succeeds, users is the seeded initial roster and
\* journalEntries is empty.
C7_ResetYieldsSeed ==
    [][ \A i \in DOMAIN inflight :
           (/\ inflight[i].forMut # NULL
            /\ inflight[i].forMut.call.kind = "resetData"
            /\ inflight[i].forMut.status = 200
            /\ ResumesOk(i))
           => /\ users' = INITIAL_USERS
              /\ journalEntries' = {} ]_vars

(***************************************************************************)
(* Properties of /api/login (SpecLogin).                                   *)
(***************************************************************************)
\* The identifier of a user by role: nisn for STUDENT, nip for TEACHER and
\* ADMIN, nik for PARENT.
IdentifierOf(u) ==
    CASE u.role = "STUDENT"            -> u.nisn
      [] u.role \in {"TEACHER", "ADMIN"} -> u.nip
      [] u.role = "PARENT"             -> u.nik
      [] OTHER                         -> NONE

SameLetter(a, b) == a = b \/ {a, b} \in {{"a", "A"}, {"b", "B"}}

EqualsIgnoringCase(s, t) ==
    Len(s) = Len(t) /\ \A i \in DOMAIN s : SameLetter(s[i], t[i])

\* The users with the role and the identifier of a login request, and those
\* of them whose password is the request's, letter case ignored.
Identified(store, body) ==
    {u \in store : u.role = body.role /\ IdentifierOf(u) = body.identifier}

Matching(store, body) ==
    {u \in Identified(store, body) : EqualsIgnoringCase(u.password, body.password)}

\* A POST with role, identifier and password present and a recognised role,
\* answered by a store whose query worked.
LoginAnswered ==
    /\ loginRes # NULL
    /\ loginReq.method = "POST"
    /\ loginReq.body.role \in Roles
    /\ loginReq.body.identifier # NONE
    /\ loginReq.body.password # <<>>
    /\ loginReq.outcome = "ok"

\* C8 as stated: such a login returns 200 with the user record exactly when
\* the store holds a user with the role, the identifier and (ignoring
\* letter case) the password.
C8_LoginIffMatch ==
    LoginAnswered =>
        ((loginRes.status = 200 /\ loginRes.user \in Matching(dbUsers, loginReq.body))
            <=> Matching(dbUsers, loginReq.body) # {})

\* C8 amended: such a login returns 200 only with the record of a user that
\* has the role, the identifier and (ignoring letter case) the password; it
\* does return 200 when some user has the role and identifier and every
\* user that has them has the password too; it does not return 200 when no
\* user has all three.
C8_LoginMatchesRowReturned ==
    LoginAnswered =>
        /\ loginRes.status = 200 => loginRes.user \in Matching(dbUsers, loginReq.body)
        /\ Matching(dbUsers, loginReq.body) = {} => loginRes.status # 200
        /\ (/\ Identified(dbUsers, loginReq.body) # {}
            /\ Identified(dbUsers, loginReq.body) = Matching(dbUsers, loginReq.body))
           => loginRes.status = 200

\* A login that succeeded with a password differing in letter case from the
\* stored one.
C8_Witness ==
    /\ LoginAnswered
    /\ loginRes.status = 200
    /\ loginRes.user.password # loginReq.body.password

\* C9: the failures of /api/login in their precedence: a method other than
\* POST gives 405 whatever the body; otherwise a missing role, identifier
\* or password, or an unrecognised role, gives 400; otherwise a failed
\* store query gives 500; otherwise no matching user or a password mismatch
\* gives 401.  No failure response carries a user record.
C9_FailurePrecedence ==
    loginRes # NULL =>
        LET b       == loginReq.body
            post    == loginReq.method = "POST"
            missing == \/ b.role = NONE \/ b.identifier = NONE \/ b.password = <<>>
                       \/ b.role \notin Roles
            failed  == loginReq.outcome # "ok"
        IN  /\ ~post => loginRes.status = 405
            /\ (post /\ missing) => loginRes.status = 400
            /\ (post /\ ~missing /\ failed) => loginRes.status = 500
            /\ (post /\ ~missing /\ ~failed /\ Matching(dbUsers, b) = {})
                  => loginRes.status = 401
            /\ loginRes.status \in {200, 400, 401, 405, 500}
            /\ loginRes.status # 200 => loginRes.user = NULL

\* A login refused with 401 because the password of the user found differs.
C9_Witness ==
    /\ LoginAnswered
    /\ loginRes.status = 401
    /\ Identified(dbUsers, loginReq.body) # {}

(***************************************************************************)
(* Properties of /api/users and /api/journals (SpecApi).                   *)
(***************************************************************************)
\* The table a request's path addresses.
TableOf(req) == IF req.path = "/api/users" THEN dbUsers ELSE dbJournals

\* C10: a PUT whose body has an id that matches no record of the table, the
\* store call not failing, is answered 404 and changes no record.
C10_StalePutNotFound ==
    [][ (/\ nApi' = nApi + 1
         /\ apiReq'.request.method = "PUT"
         /\ apiReq'.fault = {}
         /\ apiReq'.request.body.id # NONE
         /\ apiReq'.request.body.id \notin Ids(TableOf(apiReq'.request)))
        => /\ apiRes'.status = 404
           /\ UNCHANGED <<dbUsers, dbJournals>> ]_vars

\* C11: a PUT whose body has no id is answered 400 with the message
\* "Bad request: Missing user ID." (/api/users) or "Bad request: Missing
\* journal ID." (/api/journals), and the store is unchanged.
C11_PutWithoutId ==
    [][ (/\ nApi' = nApi + 1
         /\ apiReq'.request.method = "PUT"
         /\ apiReq'.request.body.id = NONE)
        => /\ apiRes'.status = 400
           /\ apiRes'.message = IF apiReq'.request.path = "/api/users"
                                THEN "Bad request: Missing user ID."
                                ELSE "Bad request: Missing journal ID."
           /\ UNCHANGED <<dbUsers, dbJournals>> ]_vars

\* A PUT /api/users without id was refused while the table held users.
C11_Witness ==
    /\ apiReq.request.method = "PUT"
    /\ apiReq.request.path = "/api/users"
    /\ apiReq.request.body.id = NONE
    /\ apiRes.status = 400
    /\ dbUsers # {}

\* C14: every journal entry's studentId is the id of a user of the store
\* whose role is STUDENT.
C14_JournalOwnerIsStudent ==
    \A e \in dbJournals :
        \E u \in dbUsers : u.id = e.studentId /\ u.role = "STUDENT"

\* C20: a reset request is answered 200 only when both tables have been
\* emptied, and 500 when one of the two deletes reports a store error; the
\* reset action is taken whatever the id parameter.
C20_ResetOnlyWhenEmptied ==
    [][ (/\ nApi' = nApi + 1
         /\ apiReq'.request.path = "/api/users"
         /\ apiReq'.request.method = "DELETE"
         /\ apiReq'.request.query.action = "reset_application_data")
        => /\ apiRes'.status \in {200, 500}
           /\ apiRes'.status = 200 => (dbUsers' = {} /\ dbJournals' = {})
           /\ (apiReq'.fault \cap {"deljournals", "delusers"} # {})
                 => apiRes'.status = 500 ]_vars

(***************************************************************************)
(* Further properties of the client (Spec).                                *)
(***************************************************************************)
\* C13: at most one fetchData call is in flight at any time.
C13_OneRefreshInFlight == Len(inflight) <= 1

\* C16: after every step (the effects included) currentUser is null or is
\* equal, field for field, to the record of users with its id; handleLogin
\* with an id that users does not hold leaves currentUser as it was.
C16_CurrentUserFollowsUsers ==
    [][ /\ (currentUser' = NULL \/ currentUser' \in users')
        /\ \A userId \in UserIds :
              (handleLogin(userId) /\ userId \notin Ids(users))
                 => UNCHANGED currentUser ]_vars

\* The signed-in user's record was edited, and currentUser followed it.
C16_Witness ==
    /\ currentUser # NULL
    /\ currentUser.name \in Names
    /\ currentUser \in users

(***************************************************************************)
(* Properties of the client and localStorage (SpecLocal).                  *)
(***************************************************************************)
\* C12: handleLogout leaves currentUser null and localStorage without a
\* stored user, and leaves users and journalEntries as they were.
C12_LogoutClearsSession ==
    [][ handleLogout
        => /\ currentUser' = NULL
           /\ getStoredUser(localStorage') = NULL
           /\ UNCHANGED <<users, journalEntries>> ]_vars

\* A step in which the user changes the setting kept under `key`.
UserSets(key) ==
    CASE key = "theme"              -> toggleTheme
      [] key = "journalCategories"  -> \E v \in {CustomValue(key)} : setJournalCategories(v)
      [] key = "attendanceSettings" -> \E v \in {CustomValue(key)} : setAttendanceSettings(v)
      [] OTHER                      -> FALSE

\* C17: in App.tsx every step that changes the item of a setting in
\* localStorage writes either the value loadState yields for that key (the
\* stored value, or the default) or the value a user action has just set;
\* a fetchData call that fails changes no item.
C17_PreferencesPreserved ==
    [][ rev = "App" =>
          /\ \A k \in SettingKeys :
                localStorage'[k] # localStorage[k] =>
                   \/ localStorage'[k] =
                         stringify(loadState(localStorage, k, Default(k)).value)
                   \/ (UserSets(k) /\ localStorage'[k] = stringify(settings'[k]))
          /\ \A i \in DOMAIN inflight :
                ResumesFailed(i) => UNCHANGED localStorage ]_vars

\* C18: in part_001, when users hold the payload of a successful fetchData
\* call and the login view or a dashboard is rendered, the settings have
\* been loaded with loadState.
C18_SettingsLoaded ==
    (/\ rev = "part_001"
     /\ users # {}
     /\ View \in {"login", "dashboard"})
    => settingsLoaded

(***************************************************************************)
(* Properties of concurrent GET /api/users requests (SpecSeed).            *)
(***************************************************************************)
\* C19: every GET /api/users request that was answered, whatever the other
\* requests under way, was answered 200 with the seed roster.
C19_SeedOnce ==
    \A i \in DOMAIN gets :
        gets[i].pc = "done" =>
            /\ gets[i].status = 200
            /\ gets[i].body = INITIAL_USERS

(***************************************************************************)
(* Termination of the client's calls (SpecLive).                           *)
(***************************************************************************)
\* Some fetchData call or mutation handler has not settled.
Unsettled == inflight # <<>> \/ muts # <<>>

\* C15: every fetchData call and every mutation handler call settles;
\* whenever the application is mounted and no fetchData call is in flight
\* isLoading is false; a fetchData call that fails leaves the error view,
\* and one that succeeds with no error set leaves the login view or a
\* dashboard.
C15_NeverStuck ==
    /\ [](mounted /\ inflight = <<>> => ~isLoading)
    /\ [][ \A i \in DOMAIN inflight :
              /\ ResumesFailed(i) => View' = "error"
              /\ (ResumesOk(i) /\ ~error) => View' \in {"login", "dashboard"} ]_vars
    /\ (Unsettled ~> ~Unsettled)

\* A mutation handler's fetchData call has settled after a first fetchData
\* call failed and was retried: nothing is pending and no splash is shown.
C15_Witness ==
    /\ mounted
    /\ ~Unsettled
    /\ lastSettled.outcome = "resolved"
    /\ nIssued >= 2
    /\ View # "splash"

====
